---- MODULE Spec2Model ----
(***************************************************************************)
(* Password analyzer: character classifier, complexity scorer, variant     *)
(* generator and seeded password synthesizer of password_analyzer.py,      *)
(* together with the process-wide random generator they share.             *)
(*                                                                         *)
(* A password is a sequence of characters; a character is a one-element    *)
(* string, and a non-ASCII character is written as its code point          *)
(* ("U+00DF").  Scores and entropies are kept in tenths (score 57 is 5.7), *)
(* exact entropies in millionths of a bit.                                 *)
(***************************************************************************)
EXTENDS Integers, Sequences, FiniteSets, TLC

\* ------------------------------------------------------------------ bounds
\* longest enumerated password / base string
MaxLen == 2
\* largest target length handed to the synthesizer
MaxTarget == 7
\* target lengths run from -MaxNeg to MaxTarget
MaxNeg == 2
\* number of states of the shared generator
RngStates == 64
\* number of states random.seed() can draw from the operating system
NumEntropy == 3

\* ------------------------------------------------------------ small helpers
Min(a, b) == IF a < b THEN a ELSE b

Max(a, b) == IF a > b THEN a ELSE b

Abs(a) == IF a < 0 THEN 0 - a ELSE a

Range(s) == {s[i] : i \in DOMAIN s}

SeqsUpTo(S, n) == UNION {[1..k -> S] : k \in 0..n}

Reverse(s) == [i \in 1..Len(s) |-> s[Len(s) + 1 - i]]

\* a slice that cuts nothing
slice_keeps_all(s, n) == s

\* s[:n] of Python: a negative n counts from the end
PySliceTo(s, n) ==
    IF n >= 0 THEN SubSeq(s, 1, Min(n, Len(s)))
    ELSE SubSeq(s, 1, Max(Len(s) + n, 0))

\* the elements of a set of integers in ascending order
RECURSIVE Ascending(_)
Ascending(S) ==
    IF S = {} THEN <<>>
    ELSE LET m == CHOOSE x \in S : \A y \in S : x <= y
         IN  <<m>> \o Ascending(S \ {m})

\* s with the element at position i replaced by the characters of rep
ReplaceAt(s, i, rep) == SubSeq(s, 1, i - 1) \o rep \o SubSeq(s, i + 1, Len(s))

\* --------------------------------------------------------------- characters
DIGITS == <<"0", "1", "2", "3", "4", "5", "6", "7", "8", "9">>

LOWER == <<"a", "b", "c", "d", "e", "f", "g", "h", "i", "j", "k", "l", "m",
           "n", "o", "p", "q", "r", "s", "t", "u", "v", "w", "x", "y", "z">>

UPPER == <<"A", "B", "C", "D", "E", "F", "G", "H", "I", "J", "K", "L", "M",
           "N", "O", "P", "Q", "R", "S", "T", "U", "V", "W", "X", "Y", "Z">>

\* the grave accent, written as its code point
BACKTICK == "U+0060"

\* the special characters get_random_special chooses from
SPECIAL == <<"!", "@", "#", "$", "%", "^", "&", "*", "(", ")", "_", "+", "-",
             "=", "[", "]", "{", "}", "|", ";", ":", ",", ".", "<", ">", "?",
             "\"", "/", "~", BACKTICK>>

\* the special characters of generate_character_sets
SYNTH_SPECIAL == <<"!", "@", "#", "$", "%", "^", "&", "*", "(", ")", "_", "+",
                   "-", "=", "[", "]", "{", "}", "|", ";", ":", ",", ".", "<",
                   ">", "?", "\"", "'", BACKTICK, "~">>

\* characters outside ASCII: sharp s, Cyrillic ya (small and capital),
\* Arabic-Indic digit three, a CJK ideograph, the euro sign; and the space
SHARP_S == "U+00DF"

CYR_SMALL_YA == "U+044F"

CYR_CAPITAL_YA == "U+042F"

ARABIC_THREE == "U+0663"

CJK_MIDDLE == "U+4E2D"

EURO == "U+20AC"

SPACE == " "

\* str.isdigit, str.islower, str.isupper, str.isalpha, str.isalnum of Python
IsDigit(c) == c \in Range(DIGITS) \cup {ARABIC_THREE}

IsLower(c) == c \in Range(LOWER) \cup {SHARP_S, CYR_SMALL_YA}

IsUpper(c) == c \in Range(UPPER) \cup {CYR_CAPITAL_YA}

IsAlpha(c) == IsLower(c) \/ IsUpper(c) \/ c = CJK_MIDDLE

IsAlnum(c) == IsAlpha(c) \/ IsDigit(c)

\* str.upper of one character: the characters of the result
ToUpper(c) ==
    IF c \in Range(LOWER)
    THEN <<UPPER[CHOOSE i \in 1..Len(LOWER) : LOWER[i] = c]>>
    ELSE IF c = SHARP_S THEN <<"S", "S">>
    ELSE IF c = CYR_SMALL_YA THEN <<CYR_CAPITAL_YA>>
    ELSE <<c>>

\* ------------------------------------------------------------------- scorer
\* a classification that takes for special only the characters of the
\* punctuation list
check_punctuation_only(password) ==
    LET has(Test(_)) == \E i \in 1..Len(password) : Test(password[i])
        digit(c) == IsDigit(c)
        lower(c) == ~IsDigit(c) /\ IsLower(c)
        upper(c) == ~IsDigit(c) /\ ~IsLower(c) /\ IsUpper(c)
        special(c) == ~IsDigit(c) /\ ~IsLower(c) /\ ~IsUpper(c)
                      /\ c \in Range(SPECIAL) \cup {"'"}
    IN  <<has(digit), has(lower), has(upper), has(special)>>

check_password_characters(password) ==
    LET has(Test(_)) == \E i \in 1..Len(password) : Test(password[i])
        digit(c) == IsDigit(c)
        lower(c) == ~IsDigit(c) /\ IsLower(c)
        upper(c) == ~IsDigit(c) /\ ~IsLower(c) /\ IsUpper(c)
        special(c) == ~IsDigit(c) /\ ~IsLower(c) /\ ~IsUpper(c) /\ ~IsAlnum(c)
    IN  <<has(digit), has(lower), has(upper), has(special)>>

\* the sizes of the uppercase and the special class exchanged
alphabet_size_swapped(char_flags) ==
    (IF char_flags[1] THEN 10 ELSE 0) + (IF char_flags[2] THEN 26 ELSE 0)
    + (IF char_flags[3] THEN 32 ELSE 0) + (IF char_flags[4] THEN 26 ELSE 0)

compute_alphabet_size(char_flags) ==
    (IF char_flags[1] THEN 10 ELSE 0) + (IF char_flags[2] THEN 26 ELSE 0)
    + (IF char_flags[3] THEN 26 ELSE 0) + (IF char_flags[4] THEN 32 ELSE 0)

\* math.log2 of an alphabet size, in millionths of a bit (rounded); the
\* sizes are the sums compute_alphabet_size can return
Log2Micro(a) ==
    CASE a = 10 -> 3321928 [] a = 26 -> 4700440 [] a = 32 -> 5000000
      [] a = 36 -> 5169925 [] a = 42 -> 5392317 [] a = 52 -> 5700440
      [] a = 58 -> 5857981 [] a = 62 -> 5954196 [] a = 68 -> 6087463
      [] a = 84 -> 6392317 [] a = 94 -> 6554589

\* an entropy that answers an empty alphabet or length with -1 bit
entropy_minus_one(password_length, alphabet_size) ==
    IF password_length <= 0 \/ alphabet_size <= 0 THEN 0 - 1000000
    ELSE password_length * Log2Micro(alphabet_size)

\* millionths of a bit; log2(alphabet_size ** password_length) is
\* password_length * log2(alphabet_size), and the power is never <= 0
compute_entropy_bits(password_length, alphabet_size) ==
    IF password_length <= 0 \/ alphabet_size <= 0 THEN 0
    ELSE password_length * Log2Micro(alphabet_size)

\* round(n / d) of Python: half to even
RoundDiv(n, d) ==
    LET q == n \div d
        r == n % d
    IN  IF 2 * r > d \/ (2 * r = d /\ q % 2 = 1) THEN q + 1 ELSE q

\* entropy in millionths of a bit; the score in tenths, or the error
map_entropy_to_score(entropy_value) ==
    IF entropy_value < 0 THEN [err |-> "ValueError", score |-> 0]
    ELSE IF entropy_value <= 0 THEN [err |-> "none", score |-> 0]
    ELSE [err |-> "none",
          score |-> RoundDiv(Min(entropy_value, 100 * 1000000), 1000000)]

NoAnalysis ==
    [score |-> 0, entropy |-> 0, has_digits |-> FALSE, has_lower |-> FALSE,
     has_upper |-> FALSE, has_special |-> FALSE, length |-> 0,
     alphabet_size |-> 0]

analyze_password_complexity(password) ==
    IF Len(password) = 0 THEN [err |-> "ValueError", analysis |-> NoAnalysis]
    ELSE
      LET char_flags == check_password_characters(password)
          alphabet_size == compute_alphabet_size(char_flags)
          entropy_value == compute_entropy_bits(Len(password), alphabet_size)
          mapped == map_entropy_to_score(entropy_value)
          score_value == Max(0, Min(mapped.score, 100))
      IN  IF mapped.err # "none"
          THEN [err |-> mapped.err, analysis |-> NoAnalysis]
          ELSE [err |-> "none",
                analysis |->
                  [score |-> score_value,
                   entropy |-> RoundDiv(entropy_value, 100000),
                   has_digits |-> char_flags[1],
                   has_lower |-> char_flags[2],
                   has_upper |-> char_flags[3],
                   has_special |-> char_flags[4],
                   length |-> Len(password),
                   alphabet_size |-> alphabet_size]]

\* tiers that take each boundary into the lower tier
recommendation_boundary_below(score) ==
    IF score <= 40 THEN "MINIMAL"
    ELSE IF score <= 60 THEN "GOOD"
    ELSE IF score <= 80 THEN "EXCELLENT"
    ELSE "SUPERB"

\* the score in tenths; the four texts are named by their first word:
\* MINIMAL (minimal improvement, still a weak password), GOOD (good
\* improvement, acceptable security), EXCELLENT (excellent improvement, good
\* security), SUPERB (a very high level of security)
get_recommendation(score) ==
    IF score < 40 THEN "MINIMAL"
    ELSE IF score < 60 THEN "GOOD"
    ELSE IF score < 80 THEN "EXCELLENT"
    ELSE "SUPERB"

\* --------------------------------------------------------- random generator
\* The generator of the random module is a deterministic machine: a state,
\* an output per state, a step per draw.  random.seed(v) puts it in the
\* state derived from v, random.seed() in a state taken from the operating
\* system's entropy.  det records which of the two seeded it last.

\* the raw output of a generator state, in 0..1008
RawOutput(st) == ((st + 7) * (st + 7) * 13 + st * 101 + 5) % 1009

\* the state after k draws
Advance(r, k) == [r EXCEPT !.st = (r.st + k) % RngStates]

\* _randbelow(n) at the k-th draw (k = 0 is the next draw) from state r
RandBelow(n, r, k) == RawOutput((r.st + k) % RngStates) % n

\* random.choice(seq) at the k-th draw
Choice(seq, r, k) == seq[RandBelow(Len(seq), r, k) + 1]

\* random.randint(a, b) at the k-th draw
RandInt(a, b, r, k) == a + RandBelow(b - a + 1, r, k)

\* random.random() < 0.3 at the k-th draw
RandomBelow03(r, k) == RawOutput((r.st + k) % RngStates) * 10 < 3 * 1009

\* a seeding that leaves the generator as it is
seed_ignored(r, seed_value) == r

\* random.seed(seed_value)
SeedWith(r, seed_value) == [st |-> Abs(seed_value) % RngStates, det |-> TRUE]

\* a reset that leaves the generator as it is
entropy_reset_skipped(r) == {r}

\* random.seed(): the states it can leave the generator in
SeedFromEntropy(r) == {[st |-> (e * 23 + 11) % RngStates, det |-> FALSE] :
                         e \in 0..(NumEntropy - 1)}

\* random.shuffle(x), draws k, k+1, ...: for i from len-1 down to 1 swap
\* x[i] with x[randbelow(i + 1)] (i counts from 0)
RECURSIVE ShuffleFrom(_, _, _, _)
ShuffleFrom(x, i, r, k) ==
    IF i < 1 THEN x
    ELSE LET j == RandBelow(i + 1, r, k)
             y == [x EXCEPT ![i + 1] = x[j + 1], ![j + 1] = x[i + 1]]
         IN  ShuffleFrom(y, i - 1, r, k + 1)

Shuffle(x, r, k) == ShuffleFrom(x, Len(x) - 1, r, k)

ShuffleDraws(x) == Max(Len(x) - 1, 0)

\* ------------------------------------------------------------- string hash
\* every character the model can put in a base string, for its code
ALL_CHARS == DIGITS \o LOWER \o UPPER \o SPECIAL
             \o <<"'", SHARP_S, CYR_SMALL_YA, CYR_CAPITAL_YA, ARABIC_THREE,
                  CJK_MIDDLE, EURO, SPACE>>

CharCode(c) == CHOOSE i \in 1..Len(ALL_CHARS) : ALL_CHARS[i] = c

\* 31 to the power n, modulo 10007
RECURSIVE HashPower(_)
HashPower(n) ==
    IF n = 0 THEN 1
    ELSE IF n % 2 = 1 THEN (31 * HashPower(n - 1)) % 10007
    ELSE (HashPower(n \div 2) * HashPower(n \div 2)) % 10007

\* hash(str): fixed within a process, salted per process; hash("") is 0.
\* The hash of the characters lo..hi of s: from h, each character c in turn
\* gives (h * 31 + code of c + salt * 7) modulo 10007, computed by halves
RECURSIVE StrHash(_, _, _, _)
StrHash(s, salt, lo, hi) ==
    IF lo > hi THEN 0
    ELSE IF lo = hi THEN (CharCode(s[lo]) + salt * 7) % 10007
    ELSE (StrHash(s, salt, lo, (lo + hi) \div 2)
            * HashPower(hi - (lo + hi) \div 2)
          + StrHash(s, salt, (lo + hi) \div 2 + 1, hi)) % 10007

hash(s, salt) == StrHash(s, salt, 1, Len(s))

\* -------------------------------------------------------------- synthesizer
generate_character_sets ==
    [digits |-> DIGITS, lower |-> LOWER, upper |-> UPPER,
     special |-> SYNTH_SPECIAL]

\* the closing loop: while the password is shorter than the target, append
\* a random character and cut to the target
RECURSIVE TopUp(_, _, _, _, _)
TopUp(generated_password, target_length, all_chars, r, k) ==
    IF Len(generated_password) < target_length
    THEN TopUp(PySliceTo(generated_password \o <<Choice(all_chars, r, k)>>,
                         target_length),
               target_length, all_chars, r, k + 1)
    ELSE [password |-> generated_password, k |-> k]

\* the number the generator is seeded with
seed_value(base_string, target_length, salt) ==
    hash(base_string, salt) + target_length

\* the room computed without the mandatory characters
base_part_len_whole(base_string, target_length, parts) ==
    Min(Len(base_string), target_length)

\* room left for a piece of the base string after the mandatory characters
base_part_max_len(base_string, target_length, parts) ==
    Min(Len(base_string), target_length - parts)

\* an entry that seeds the generator before it checks the base string
synth_entry_seeds_first(base_string, target_length, r, salt) ==
    [err |-> IF Len(base_string) = 0 THEN "ValueError" ELSE "none",
     rng |-> [st |-> Abs(seed_value(base_string, target_length, salt))
                     % RngStates,
              det |-> TRUE]]

\* the entry of generate_secure_password: the check of the base string,
\* then random.seed(seed_value)
synth_entry(base_string, target_length, r, salt) ==
    IF Len(base_string) = 0 THEN [err |-> "ValueError", rng |-> r]
    ELSE [err |-> "none",
          rng |-> SeedWith(r, seed_value(base_string, target_length, salt))]

\* the body of generate_secure_password after random.seed(seed_value), run
\* on generator state r: the password and the number of draws
generate_secure_password(base_string, target_length, r) ==
    LET char_sets == generate_character_sets
        all_chars == char_sets.digits \o char_sets.lower \o char_sets.upper
                     \o char_sets.special
        mandatory_chars == <<Choice(char_sets.digits, r, 0),
                             Choice(char_sets.lower, r, 1),
                             Choice(char_sets.upper, r, 2),
                             Choice(char_sets.special, r, 3)>>
        max_len == base_part_max_len(base_string, target_length,
                                     Len(mandatory_chars))
        start_idx == RandInt(0, Max(0, Len(base_string) - max_len), r, 4)
        base_part == IF max_len > 0
                     THEN SubSeq(base_string, start_idx + 1,
                                 start_idx + max_len)
                     ELSE <<>>
        k1 == IF max_len > 0 THEN 5 ELSE 4
        current_length == 4 + Len(base_part)
        remaining == IF current_length < target_length
                     THEN target_length - current_length ELSE 0
        padding == [i \in 1..remaining |-> Choice(all_chars, r, k1 + i - 1)]
        k2 == k1 + remaining
        all_chars_list == mandatory_chars \o base_part \o padding
        shuffled == Shuffle(all_chars_list, r, k2)
        k3 == k2 + ShuffleDraws(all_chars_list)
        cut == PySliceTo(shuffled, target_length)
    IN  TopUp(cut, target_length, all_chars, r, k3)

\* -------------------------------------------------------- variant generator
get_random_digit(r, k) == Choice(DIGITS, r, k)

get_random_lower(r, k) == Choice(LOWER, r, k)

get_random_upper(r, k) == Choice(UPPER, r, k)

get_random_special(r, k) == Choice(SPECIAL, r, k)

\* a candidate: its password, the score of that password, its category
Candidate(new_password, improvement_type) ==
    [password |-> new_password,
     score |-> analyze_password_complexity(new_password).analysis.score,
     improvement_type |-> improvement_type]

\* a variant that stores the score of the appended characters alone
variant_scored_by_suffix(original_password, suffix, improvement_type) ==
    [password |-> original_password \o suffix,
     score |-> analyze_password_complexity(suffix).analysis.score,
     improvement_type |-> improvement_type]

create_improvement_variant(original_password, suffix, improvement_type) ==
    Candidate(original_password \o suffix, improvement_type)

\* Each heuristic below takes the original password p, its analysis oa,
\* the generator state r at entry of generate_improvement_variants and the
\* number k of draws already made; it gives the candidates it appends
\* (none or one) and the number of draws made after it.

\* heuristics a to e: the loop over improvement_specs
append_specs(p, oa, r, k) ==
    LET cA == ~oa.has_digits
        vA == IF cA THEN <<create_improvement_variant(
                             p, <<get_random_digit(r, k)>>, "simple")>>
              ELSE <<>>
        kA == k + (IF cA THEN 1 ELSE 0)
        cB == ~oa.has_upper
        vB == IF cB THEN <<create_improvement_variant(
                             p, <<get_random_upper(r, kA)>>, "moderate")>>
              ELSE <<>>
        kB == kA + (IF cB THEN 1 ELSE 0)
        cC == ~oa.has_special
        vC == IF cC THEN <<create_improvement_variant(
                             p, <<get_random_special(r, kB)>>, "good")>>
              ELSE <<>>
        kC == kB + (IF cC THEN 1 ELSE 0)
        vD == <<create_improvement_variant(
                  p, <<get_random_digit(r, kC), get_random_special(r, kC + 1)>>,
                  "better")>>
        kD == kC + 2
        vE == <<create_improvement_variant(
                  p, <<get_random_lower(r, kD), get_random_upper(r, kD + 1),
                       get_random_digit(r, kD + 2),
                       get_random_special(r, kD + 3)>>,
                  "excellent")>>
    IN  [out |-> vA \o vB \o vC \o vD \o vE, k |-> kD + 4]

\* heuristic f: a random lowercase letter is made uppercase
uppercase_random_lower(p, oa, r, k) ==
    LET lower_indices == Ascending({i \in 1..Len(p) : IsLower(p[i])})
        random_index == Choice(lower_indices, r, k)
        variant2 == ReplaceAt(p, random_index, ToUpper(p[random_index]))
    IN  IF lower_indices # <<>>
        THEN [out |-> <<Candidate(variant2, "moderate")>>, k |-> k + 1]
        ELSE [out |-> <<>>, k |-> k]

\* heuristic g with its candidate appended to the list twice
doubled_reverse_twice(p, oa, r, k) ==
    IF Len(p) < 20
    THEN [out |-> <<Candidate(p \o Reverse(p)
                                \o <<get_random_digit(r, k),
                                      get_random_special(r, k + 1)>>,
                              "strong"),
                    Candidate(p \o Reverse(p)
                                \o <<get_random_digit(r, k),
                                      get_random_special(r, k + 1)>>,
                              "strong")>>,
          k |-> k + 2]
    ELSE [out |-> <<>>, k |-> k]

\* heuristic g: the password, its reverse, a digit and a special character
doubled_reverse(p, oa, r, k) ==
    LET random_suffix == <<get_random_digit(r, k), get_random_special(r, k + 1)>>
        variant3 == p \o Reverse(p) \o random_suffix
    IN  IF Len(p) < 20
        THEN [out |-> <<Candidate(variant3, "strong")>>, k |-> k + 2]
        ELSE [out |-> <<>>, k |-> k]

\* the replacements of a character, each a string; none for the others
replacement_options(c) ==
    CASE c = "a" -> << <<"@">>, <<"4">> >>
      [] c = "e" -> << <<"3">>, <<EURO>> >>
      [] c = "i" -> << <<"1">>, <<"!">> >>
      [] c = "o" -> << <<"0">>, <<"(", ")">> >>
      [] c = "s" -> << <<"$">>, <<"5">> >>
      [] c = "t" -> << <<"7">>, <<"+">> >>
      [] c = "A" -> << <<"4">>, <<"@">> >>
      [] c = "E" -> << <<"3">>, <<EURO>> >>
      [] c = "I" -> << <<"1">>, <<"!">> >>
      [] c = "O" -> << <<"0">>, <<"(", ")">> >>
      [] c = "S" -> << <<"$">>, <<"5">> >>
      [] c = "T" -> << <<"7">>, <<"+">> >>
      [] c = "b" -> << <<"8">>, <<"|", "3">> >>
      [] c = "g" -> << <<"9">>, <<"&">> >>
      [] c = "l" -> << <<"1">>, <<"|">> >>
      [] c = "z" -> << <<"2">>, <<"%">> >>
      [] OTHER -> <<>>

\* the loop of heuristic h over the characters from position i on: modified
\* is the text so far, made the number of replacements
RECURSIVE LeetLoop(_, _, _, _, _, _)
LeetLoop(p, i, modified, made, r, k) ==
    IF i > Len(p) THEN [password |-> modified, made |-> made, k |-> k]
    ELSE
      LET char == p[i]
          possible_replacements == replacement_options(char)
      IN  IF possible_replacements = <<>>
          THEN LeetLoop(p, i + 1, modified \o <<char>>, made, r, k)
          ELSE IF RandomBelow03(r, k)
          THEN LeetLoop(p, i + 1,
                        modified \o Choice(possible_replacements, r, k + 1),
                        made + 1, r, k + 2)
          ELSE LeetLoop(p, i + 1, modified \o <<char>>, made, r, k + 1)

\* heuristic h: leet substitution, a candidate only if something was replaced
leet_substitution(p, oa, r, k) ==
    LET done == LeetLoop(p, 1, <<>>, 0, r, k)
    IN  IF done.made > 0
        THEN [out |-> <<Candidate(done.password, "creative")>>, k |-> done.k]
        ELSE [out |-> <<>>, k |-> done.k]

\* heuristic i: one weak point, chosen at random, is fixed (the weak points
\* are told apart by their text; the final else of the code matches none)
fix_weak_point(p, oa, r, k) ==
    LET weak_points ==
            (IF ~oa.has_digits THEN <<"no_digits">> ELSE <<>>)
            \o (IF ~oa.has_upper THEN <<"no_upper">> ELSE <<>>)
            \o (IF ~oa.has_special THEN <<"no_special">> ELSE <<>>)
            \o (IF oa.length < 8 THEN <<"too_short">> ELSE <<>>)
        random_weak_point == Choice(weak_points, r, k)
        letter_indices == Ascending({i \in 1..Len(p) : IsAlpha(p[i])})
        random_index == Choice(letter_indices, r, k + 1)
        fixed ==
            CASE random_weak_point = "no_digits" ->
                   [password |-> p \o <<get_random_digit(r, k + 1),
                                        get_random_digit(r, k + 2)>>,
                    k |-> k + 3]
              [] random_weak_point = "no_upper" ->
                   IF letter_indices # <<>>
                   THEN [password |-> ReplaceAt(p, random_index,
                                                ToUpper(p[random_index])),
                         k |-> k + 2]
                   ELSE [password |-> p \o <<get_random_upper(r, k + 1)>>,
                         k |-> k + 2]
              [] random_weak_point = "no_special" ->
                   [password |-> p \o <<get_random_special(r, k + 1)>>,
                    k |-> k + 2]
              [] random_weak_point = "too_short" ->
                   [password |-> p \o <<get_random_lower(r, k + 1),
                                        get_random_upper(r, k + 2),
                                        get_random_digit(r, k + 3),
                                        get_random_special(r, k + 4)>>,
                    k |-> k + 5]
    IN  IF weak_points # <<>>
        THEN [out |-> <<Candidate(fixed.password, "smart")>>, k |-> fixed.k]
        ELSE [out |-> <<>>, k |-> k]

\* the cut with the smaller of the two lengths
shuffle_target_min(original_length) == Min(8, original_length + 4)

\* the cut of heuristic j
shuffle_target_length(original_length) == Max(8, original_length + 4)

\* heuristic j: the password and four added characters, shuffled and cut
shuffled_variant(p, oa, r, k) ==
    LET added_chars == <<get_random_digit(r, k), get_random_lower(r, k + 1),
                         get_random_upper(r, k + 2),
                         get_random_special(r, k + 3)>>
        all_chars == p \o added_chars
        shuffled == Shuffle(all_chars, r, k + 4)
        target_length == shuffle_target_length(Len(p))
        variant6 == IF Len(shuffled) > target_length
                    THEN PySliceTo(shuffled, target_length) ELSE shuffled
    IN  IF Len(p) < 15
        THEN [out |-> <<Candidate(variant6, "strong")>>,
              k |-> k + 4 + ShuffleDraws(all_chars)]
        ELSE [out |-> <<>>, k |-> k]

\* list.sort(key = score): stable, ascending
RECURSIVE SortByScore(_)
SortByScore(vs) ==
    IF vs = <<>> THEN <<>>
    ELSE LET sorted == SortByScore(SubSeq(vs, 1, Len(vs) - 1))
             last == vs[Len(vs)]
             before == Cardinality({i \in 1..Len(sorted) :
                                      sorted[i].score <= last.score})
         IN  SubSeq(sorted, 1, before) \o <<last>>
             \o SubSeq(sorted, before + 1, Len(sorted))

\* a filter that also keeps an equal score
improves_or_equal(v, original_score) == v.score >= original_score

\* the filter on the candidates
improves(v, original_score) == v.score > original_score

complexity_levels ==
    <<"simple", "moderate", "good", "better", "excellent", "strong",
      "creative", "smart">>

\* the loop over complexity_levels from level number n on: one random
\* candidate of each level that has any
RECURSIVE PickLevels(_, _, _, _, _)
PickLevels(filtered_variants, n, final_variants, r, k) ==
    IF n > Len(complexity_levels)
    THEN [variants |-> final_variants, k |-> k]
    ELSE
      LET level == complexity_levels[n]
          OfLevel(v) == v.improvement_type = level
          level_variants == SelectSeq(filtered_variants, OfLevel)
      IN  IF level_variants # <<>>
          THEN PickLevels(filtered_variants, n + 1,
                          final_variants \o <<Choice(level_variants, r, k)>>,
                          r, k + 1)
          ELSE PickLevels(filtered_variants, n + 1, final_variants, r, k)

\* random.sample(population, count): selection i takes pool[randbelow(n - i)]
\* and moves the last unselected element into its place
RECURSIVE SampleFrom(_, _, _, _, _, _)
SampleFrom(pool, i, count, result, r, k) ==
    IF i >= count THEN result
    ELSE LET n == Len(pool)
             j == RandBelow(n - i, r, k)
         IN  SampleFrom([pool EXCEPT ![j + 1] = pool[n - i]], i + 1, count,
                        result \o <<pool[j + 1]>>, r, k + 1)

\* one variant more
max_variants_more == 5 + 1

\* how many variants the generator returns at most
max_variants == 5

\* the cut without the final sort
cut_unsorted(sampled, k) ==
    [variants |-> SubSeq(sampled, 1, Min(5, Len(sampled))), k |-> k]

\* the final sort and the cut to the first five
sorted_and_cut(sampled, k) ==
    [variants |-> SubSeq(SortByScore(sampled), 1,
                         Min(max_variants, Len(sampled))),
     k |-> k]

\* more than five picked variants are sampled down to five
sample_picked(picked, r) ==
    IF Len(picked.variants) > max_variants
    THEN sorted_and_cut(SampleFrom(picked.variants, 0, max_variants, <<>>,
                                   r, picked.k),
                        picked.k + max_variants)
    ELSE sorted_and_cut(picked.variants, picked.k)

\* an end without the filter on the score
select_unfiltered(variants, original_score, r, k) ==
    sample_picked(PickLevels(SortByScore(variants), 1, <<>>, r, k), r)

\* an end that samples among all the filtered candidates, levels ignored
select_without_levels(variants, original_score, r, k) ==
    LET Keeps(v) == improves(v, original_score)
    IN  sample_picked([variants |-> SortByScore(SelectSeq(variants, Keeps)),
                       k |-> k],
                      r)

\* the end of generate_improvement_variants: filter, one per level, sample
select_variants(variants, original_score, r, k) ==
    LET Keeps(v) == improves(v, original_score)
    IN  sample_picked(PickLevels(SortByScore(SelectSeq(variants, Keeps)),
                                 1, <<>>, r, k),
                      r)

\* heuristic number n of the six blocks of generate_improvement_variants
heuristic(n, p, oa, r, k) ==
    CASE n = 1 -> append_specs(p, oa, r, k)
      [] n = 2 -> uppercase_random_lower(p, oa, r, k)
      [] n = 3 -> doubled_reverse(p, oa, r, k)
      [] n = 4 -> leet_substitution(p, oa, r, k)
      [] n = 5 -> fix_weak_point(p, oa, r, k)
      [] n = 6 -> shuffled_variant(p, oa, r, k)

\* the blocks from number n on, in the order of the code: variants is the
\* list built so far, k the number of draws made so far; h is what block n
\* appends
RECURSIVE build_variants(_, _, _, _, _, _)
RECURSIVE build_after(_, _, _, _, _, _)
build_after(n, p, oa, r, h, variants) ==
    build_variants(n + 1, p, oa, r, h.k, variants \o h.out)

build_variants(n, p, oa, r, k, variants) ==
    IF n > 6 THEN [variants |-> variants, k |-> k]
    ELSE build_after(n, p, oa, r, heuristic(n, p, oa, r, k), variants)

\* what generate_improvement_variants gives: the candidates built, the
\* variants returned, the draws made
variants_result(built, selected) ==
    [candidates |-> built.variants, variants |-> selected.variants,
     k |-> selected.k]

select_built(built, original_score, r) ==
    variants_result(built, select_variants(built.variants, original_score,
                                           r, built.k))

generate_from_analysis(original_password, original_analysis, r) ==
    select_built(build_variants(1, original_password, original_analysis, r,
                                0, <<>>),
                 original_analysis.score, r)

\* generate_improvement_variants on a non-empty password, from generator
\* state r
generate_improvement_variants(original_password, r) ==
    generate_from_analysis(
        original_password,
        analyze_password_complexity(original_password).analysis, r)

\* ------------------------------------------------------------ state machine
\* rng       the process-wide generator: its state and how it was seeded
\* hashSalt  the salt of the string hash, fixed when the process starts
\* pc        "idle": between calls; "synth": inside generate_secure_password,
\*           after the seeding; "done": a call has returned or raised
\* call      the call in progress or just finished
\* outcome   what that call returned or raised
\* noted     an earlier result of generate_secure_password, kept by the caller
\* shell     where the interactive shell is in generate_new_password, the
\*           target length it holds and the last message it printed
VARIABLES rng, hashSalt, pc, call, outcome, noted, shell

vars == <<rng, hashSalt, pc, call, outcome, noted, shell>>

PwChars == {"a", "o", "K", "1", "!"}

BaseChars == {"a", "1"}

\* further passwords, beyond the enumerated ones
LongPasswords ==
    {<<SHARP_S, "1">>,
     <<"p", "a", "s", "s", "w", "o", "r", "d", "1">>,
     <<"C", "o", "r", "r", "e", "c", "t", "-", "H", "o", "r", "s", "e", "-",
       "4", "2">>,
     <<CYR_SMALL_YA, CYR_CAPITAL_YA, ARABIC_THREE>>,
     <<CJK_MIDDLE>>,
     <<SPACE, SPACE>>}

Passwords == SeqsUpTo(PwChars, MaxLen) \cup LongPasswords

ProbePasswords == {<<>>, <<"a">>, <<"o", "1">>}

BaseStrings == SeqsUpTo(BaseChars, MaxLen)

\* the salts the string hash of a process can have
HashSalts == {0, 1}

\* the base strings of the repeated syntheses
RepeatBases == {<<>>, <<"a">>, <<"a", "1">>}

TargetLengths == (0 - MaxNeg)..MaxTarget

NoCall == [op |-> "none", text |-> <<>>, target |-> 0]

NoOutcome ==
    [err |-> "none", analysis |-> NoAnalysis, candidates |-> <<>>,
     variants |-> <<>>, password |-> <<>>, recommendation |-> "",
     returned |-> FALSE]

Raised(e) == [NoOutcome EXCEPT !.err = e]

NoNote == [text |-> <<>>, target |-> 0, password |-> <<>>, set |-> FALSE]

\* the shell is in its menu, outside generate_new_password
NoShell == [stage |-> "menu", target_length |-> 0, said |-> ""]

Init ==
    /\ rng \in SeedFromEntropy([st |-> 0, det |-> FALSE])
    /\ hashSalt \in HashSalts
    /\ pc = "idle"
    /\ call = NoCall
    /\ outcome = NoOutcome
    /\ noted = NoNote
    /\ shell = NoShell

\* analyze_password_complexity(password)
Analyze(password) ==
    /\ pc = "idle"
    /\ LET res == analyze_password_complexity(password)
       IN  outcome' = IF res.err # "none" THEN Raised(res.err)
                      ELSE [NoOutcome EXCEPT !.analysis = res.analysis,
                                             !.returned = TRUE]
    /\ call' = [op |-> "analyze", text |-> password, target |-> 0]
    /\ pc' = "done"
    /\ UNCHANGED <<rng, hashSalt, noted, shell>>

\* what a call of generate_improvement_variants leaves: the analysis of the
\* original raises on an empty password before anything is drawn
variants_returned(first, res, r) ==
    [outcome |-> [NoOutcome EXCEPT !.analysis = first.analysis,
                                   !.candidates = res.candidates,
                                   !.variants = res.variants,
                                   !.returned = TRUE],
     rng |-> Advance(r, res.k)]

variants_call(password, first, r) ==
    IF first.err # "none" THEN [outcome |-> Raised(first.err), rng |-> r]
    ELSE variants_returned(first, generate_improvement_variants(password, r),
                           r)

Leaves(left) == outcome' = left.outcome /\ rng' = left.rng

\* generate_improvement_variants(password)
Variants(password) ==
    /\ pc = "idle"
    /\ Leaves(variants_call(password, analyze_password_complexity(password),
                            rng))
    /\ call' = [op |-> "variants", text |-> password, target |-> 0]
    /\ pc' = "done"
    /\ UNCHANGED <<hashSalt, noted, shell>>

\* generate_secure_password(base_string, target_length), up to the seeding
SynthCall(base_string, target_length) ==
    /\ pc = "idle"
    /\ LET entry == synth_entry(base_string, target_length, rng, hashSalt)
       IN  /\ rng' = entry.rng
           /\ IF entry.err # "none"
              THEN outcome' = Raised(entry.err) /\ pc' = "done"
              ELSE outcome' = NoOutcome /\ pc' = "synth"
    /\ call' = [op |-> "synth", text |-> base_string, target |-> target_length]
    /\ UNCHANGED <<hashSalt, noted, shell>>

\* generate_secure_password from the seeding to the return
SynthBody ==
    /\ pc = "synth"
    /\ LET res == generate_secure_password(call.text, call.target, rng)
       IN  /\ outcome' = [NoOutcome EXCEPT !.password = res.password,
                                           !.returned = TRUE]
           /\ rng' \in SeedFromEntropy(Advance(rng, res.k))
    /\ pc' = "done"
    /\ UNCHANGED <<hashSalt, call, noted, shell>>

\* the caller is done with the result and goes on to its next call
Continue ==
    /\ pc = "done"
    /\ pc' = "idle"
    /\ call' = NoCall
    /\ outcome' = NoOutcome
    /\ UNCHANGED <<rng, hashSalt, noted, shell>>

\* the caller keeps a synthesized password to compare later ones with
Remember ==
    /\ pc = "done"
    /\ call.op = "synth"
    /\ outcome.returned
    /\ ~noted.set
    /\ noted' = [text |-> call.text, target |-> call.target,
                 password |-> outcome.password, set |-> TRUE]
    /\ pc' = "idle"
    /\ call' = NoCall
    /\ outcome' = NoOutcome
    /\ UNCHANGED <<rng, hashSalt, shell>>

\* get_recommendation(score)
Recommend(score) ==
    /\ pc = "idle"
    /\ outcome' = [NoOutcome EXCEPT !.recommendation = get_recommendation(score),
                                    !.returned = TRUE]
    /\ call' = [op |-> "recommend", text |-> <<>>, target |-> score]
    /\ pc' = "done"
    /\ UNCHANGED <<rng, hashSalt, noted, shell>>

Next ==
    \/ \E password \in Passwords : Analyze(password)
    \/ \E password \in Passwords : Variants(password)
    \/ \E base_string \in BaseStrings, target_length \in TargetLengths :
         SynthCall(base_string, target_length)
    \/ SynthBody
    \/ Continue

Spec == Init /\ [][Next]_vars

\* repeated syntheses with other calls in between, the caller comparing
NextRepeat ==
    \/ \E password \in ProbePasswords : Analyze(password)
    \/ \E password \in ProbePasswords : Variants(password)
    \/ \E base_string \in RepeatBases, target_length \in TargetLengths :
         SynthCall(base_string, target_length)
    \/ SynthBody
    \/ Continue
    \/ Remember

SpecRepeat == Init /\ [][NextRepeat]_vars

\* ------------------------------------------------------------------- shell
\* str.lower of one character
ToLower(c) ==
    IF c \in Range(UPPER)
    THEN LOWER[CHOOSE i \in 1..Len(UPPER) : UPPER[i] = c]
    ELSE IF c = CYR_CAPITAL_YA THEN CYR_SMALL_YA
    ELSE c

Lower(s) == [i \in 1..Len(s) |-> ToLower(s[i])]

\* str.strip: the whitespace at both ends is removed
RECURSIVE Strip(_)
Strip(s) ==
    IF s = <<>> THEN s
    ELSE IF Head(s) = SPACE THEN Strip(Tail(s))
    ELSE IF s[Len(s)] = SPACE THEN Strip(SubSeq(s, 1, Len(s) - 1))
    ELSE s

\* Cyrillic small de and small a, the letters of the affirmative answers
CYR_SMALL_DE == "U+0434"

CYR_SMALL_A == "U+0430"

is_positive_response(response) ==
    Lower(Strip(response)) \in {<<CYR_SMALL_DE, CYR_SMALL_A>>, <<CYR_SMALL_DE>>,
                                <<"y">>, <<"y", "e", "s">>, <<"1">>}

\* the word that leaves generate_new_password: small en, a, ze, a, de
BACK_WORD == <<"U+043D", CYR_SMALL_A, "U+0437", CYR_SMALL_A, CYR_SMALL_DE>>

DigitValue(c) ==
    IF c = ARABIC_THREE THEN 3
    ELSE (CHOOSE i \in 1..Len(DIGITS) : DIGITS[i] = c) - 1

RECURSIVE DigitsValue(_, _)
DigitsValue(s, value) ==
    IF s = <<>> THEN value
    ELSE DigitsValue(Tail(s), value * 10 + DigitValue(Head(s)))

\* int(text) of a stripped text: an optional sign and decimal digits, or
\* ValueError
int(text) ==
    LET signed == text # <<>> /\ Head(text) \in {"-", "+"}
        digits == IF signed THEN Tail(text) ELSE text
    IN  IF digits = <<>> \/ \E i \in 1..Len(digits) : ~IsDigit(digits[i])
        THEN [err |-> "ValueError", value |-> 0]
        ELSE [err |-> "none",
              value |-> IF signed /\ Head(text) = "-"
                        THEN 0 - DigitsValue(digits, 0)
                        ELSE DigitsValue(digits, 0)]

\* the target length generate_new_password takes from the typed length: 14
\* when nothing is typed, else the number, raised to 8 or lowered to 50, and
\* the message printed
shell_target_length(length_input) ==
    IF length_input = <<>>
    THEN [err |-> "none", target_length |-> 14, said |-> ""]
    ELSE IF int(length_input).err # "none"
    THEN [err |-> "ValueError", target_length |-> 14, said |-> "input_error"]
    ELSE IF int(length_input).value < 8
    THEN [err |-> "none", target_length |-> 8, said |-> "minimum"]
    ELSE IF int(length_input).value > 50
    THEN [err |-> "none", target_length |-> 50, said |-> "limited"]
    ELSE [err |-> "none", target_length |-> int(length_input).value,
          said |-> ""]

\* the target length of the improved version
improved_target_length(target_length) == Max(target_length + 4, 12)

\* what the user types as the base, as the length and as the answer
ShellBases == {<<>>, <<SPACE>>, BACK_WORD, <<"a">>, <<"a", "1", SPACE>>}

ShellLengths ==
    {<<>>, <<"x">>, <<"-", "1">>, <<"0">>, <<"7">>, <<"8">>, <<"1", "2">>,
     <<"4", "6">>, <<"4", "7">>, <<SPACE, "5", "0">>, <<"5", "1">>,
     <<"9", "9">>}

ShellAnswers == {<<>>, <<"n">>, <<"Y", "e", "s", SPACE>>, <<CYR_SMALL_DE>>}

\* the first call of generate_new_password, up to the seeding
shell_first_call(base_input, asked) ==
    /\ shell' = [stage |-> "first", target_length |-> asked.target_length,
                 said |-> asked.said]
    /\ rng' = synth_entry(base_input, asked.target_length, rng, hashSalt).rng
    /\ call' = [op |-> "synth", text |-> base_input,
                target |-> asked.target_length]
    /\ outcome' = NoOutcome
    /\ pc' = "synth"

\* generate_new_password from the prompt for the base to the first call of
\* generate_secure_password: the word 'back' returns to the menu; an empty
\* base or a length that is no number is a ValueError, caught by the loop,
\* which prints it and asks again
shell_asked(base_input, asked) ==
    IF Lower(base_input) = BACK_WORD
    THEN shell' = NoShell /\ UNCHANGED <<rng, pc, call, outcome>>
    ELSE IF base_input = <<>> \/ asked.err # "none"
    THEN /\ shell' = [stage |-> "prompt", target_length |-> 0,
                      said |-> "input_error"]
         /\ UNCHANGED <<rng, pc, call, outcome>>
    ELSE shell_first_call(base_input, asked)

ShellGenerate(typed_base, typed_length) ==
    /\ pc = "idle"
    /\ shell.stage \in {"menu", "prompt"}
    /\ shell_asked(Strip(typed_base), shell_target_length(Strip(typed_length)))
    /\ UNCHANGED <<hashSalt, noted>>

\* the second call: generate_secure_password raises on an empty password,
\* which the shell catches and prints before it returns to the menu
shell_second_call(generated_password, target_length, entry) ==
    IF entry.err # "none"
    THEN /\ shell' = [NoShell EXCEPT !.said = "generation_error"]
         /\ call' = NoCall
         /\ pc' = "idle"
         /\ UNCHANGED rng
    ELSE /\ shell' = [shell EXCEPT !.stage = "second"]
         /\ call' = [op |-> "synth", text |-> generated_password,
                     target |-> target_length]
         /\ pc' = "synth"
         /\ rng' = entry.rng

\* generate_new_password after the first password is shown: on a positive
\* answer the improved version is generated from it, else the shell returns
\* to the menu
ShellImprove(use_choice) ==
    /\ pc = "done"
    /\ shell.stage = "first"
    /\ IF is_positive_response(use_choice)
       THEN shell_second_call(
              outcome.password, improved_target_length(shell.target_length),
              synth_entry(outcome.password,
                          improved_target_length(shell.target_length),
                          rng, hashSalt))
       ELSE /\ shell' = NoShell
            /\ call' = NoCall
            /\ pc' = "idle"
            /\ UNCHANGED rng
    /\ outcome' = NoOutcome
    /\ UNCHANGED <<hashSalt, noted>>

\* the improved version is shown and the shell returns to the menu
ShellReturn ==
    /\ pc = "done"
    /\ shell.stage = "second"
    /\ shell' = NoShell
    /\ call' = NoCall
    /\ outcome' = NoOutcome
    /\ pc' = "idle"
    /\ UNCHANGED <<rng, hashSalt, noted>>

\* the shell in its menu choice 2, generate_new_password
NextShell ==
    \/ \E typed_base \in ShellBases, typed_length \in ShellLengths :
         ShellGenerate(typed_base, typed_length)
    \/ SynthBody
    \/ \E use_choice \in ShellAnswers : ShellImprove(use_choice)
    \/ ShellReturn

SpecShell == Init /\ [][NextShell]_vars

\* the scores of the scale from 0 to 10, in tenths
Scores == 0..100

\* get_recommendation on every score of the scale
NextRecommend ==
    \/ \E score \in Scores : Recommend(score)
    \/ Continue

SpecRecommend == Init /\ [][NextRecommend]_vars

\* ------------------------------------------------------------------ claims
VariantsReturned == pc = "done" /\ call.op = "variants" /\ outcome.returned

SynthReturned == pc = "done" /\ call.op = "synth" /\ outcome.returned

AnalysisReturned == pc = "done" /\ call.op = "analyze" /\ outcome.returned

ScoreOf(password) == analyze_password_complexity(password).analysis.score

ReturnedVariants == {outcome.variants[i] : i \in 1..Len(outcome.variants)}

\* C1: every variant generate_improvement_variants returns has a score field
\* strictly greater than the score of the original password, and analysing
\* the variant's password again also gives a strictly greater score.
C1_VariantsScoreHigher ==
    VariantsReturned =>
      \A v \in ReturnedVariants :
        /\ v.score > ScoreOf(call.text)
        /\ ScoreOf(v.password) > ScoreOf(call.text)

\* C1 happens: variants are returned while a candidate that does not improve
\* the score was built and left out.
C1_Witness ==
    /\ VariantsReturned
    /\ outcome.variants # <<>>
    /\ \E i \in 1..Len(outcome.candidates) :
         outcome.candidates[i].score <= ScoreOf(call.text)

\* C2: generate_improvement_variants returns at most 5 variants.
C2_AtMostFive == VariantsReturned => Len(outcome.variants) <= 5

\* C2 happens: more than 5 categories have an improving candidate and exactly
\* 5 variants are returned.
C2_Witness ==
    /\ VariantsReturned
    /\ Len(outcome.variants) = 5
    /\ Cardinality({outcome.candidates[i].improvement_type :
                      i \in {j \in 1..Len(outcome.candidates) :
                               outcome.candidates[j].score
                                 > ScoreOf(call.text)}}) > 5

\* C3: the password of every returned variant is at least as long as the
\* original password.
C3_VariantsNotShorter ==
    VariantsReturned =>
      \A v \in ReturnedVariants : Len(v.password) >= Len(call.text)

\* C3 happens: the shuffled candidate of a password longer than 8 characters
\* (the password and four more, more than the floor of the cut) is returned.
C3_Witness ==
    /\ VariantsReturned
    /\ Len(call.text) > 8
    /\ \E v \in ReturnedVariants :
         v.improvement_type = "strong" /\ Len(v.password) = Len(call.text) + 4

\* C4: for a non-empty seed and a target length of at least 1,
\* generate_secure_password returns exactly target-length characters.
C4_ExactLength ==
    (pc = "done" /\ call.op = "synth" /\ call.text # <<>> /\ call.target >= 1)
      => outcome.returned /\ Len(outcome.password) = call.target

\* C4 happens: a password shorter than the four mandatory characters is
\* returned at its target length.
C4_Witness ==
    /\ SynthReturned
    /\ call.target \in 1..3
    /\ Len(outcome.password) = call.target

HasAllClasses(password) ==
    check_password_characters(password) = <<TRUE, TRUE, TRUE, TRUE>>

\* C5 as stated: for every target length of at least 1 the synthesized
\* password contains a digit, a lowercase letter, an uppercase letter and a
\* special character.
C5_AllClassesFromOne ==
    (SynthReturned /\ call.target >= 1) => HasAllClasses(outcome.password)

\* C5 amended: for every target length of at least 4 the synthesized
\* password contains a digit, a lowercase letter, an uppercase letter and a
\* special character.
C5_AllClassesFromFour ==
    (SynthReturned /\ call.target >= 4) => HasAllClasses(outcome.password)

\* C5 happens: a password of target length 5 made from a base string of two
\* characters, which leaves room for one of them only, has all four classes.
C5_Witness ==
    /\ SynthReturned
    /\ call.target = 5
    /\ Len(call.text) = 2
    /\ HasAllClasses(outcome.password)

\* C6: a call of generate_secure_password returns the same string as an
\* earlier call with the same seed and target length in the same run,
\* whatever ran in between.
C6_SameInputSameOutput ==
    (SynthReturned /\ noted.set /\ noted.text = call.text
       /\ noted.target = call.target)
      => outcome.password = noted.password

\* C6 happens: a synthesis with the arguments of the noted one has returned
\* the noted password, longer than the four mandatory characters.
C6_Witness ==
    /\ SynthReturned
    /\ noted.set
    /\ noted.text = call.text
    /\ noted.target = call.target
    /\ outcome.password = noted.password
    /\ Len(outcome.password) > 4

\* C7: the generator is deterministically seeded exactly while control is
\* inside generate_secure_password, between the seeding and the reset.
C7_SeededOnlyInside == rng.det <=> pc = "synth"

\* C7 happens: a variant generation that follows a synthesis has returned,
\* having drawn from a generator that is not deterministically seeded.
C7_Witness ==
    /\ VariantsReturned
    /\ noted.set
    /\ outcome.variants # <<>>
    /\ ~rng.det

\* C8: a call with an empty password or seed raises ValueError, returns
\* nothing and leaves the generator as it was.
C8_EmptyInputRaises ==
    [][(pc = "idle" /\ pc' # "idle" /\ call'.text = <<>>)
         => /\ pc' = "done"
            /\ outcome'.err = "ValueError"
            /\ ~outcome'.returned
            /\ rng' = rng]_vars

\* C8 happens: generate_secure_password has raised on an empty seed.
C8_Witness ==
    /\ pc = "done"
    /\ call.op = "synth"
    /\ call.text = <<>>
    /\ outcome.err = "ValueError"

\* C9: generate_secure_password with a non-empty seed and a target length
\* of 0 or less raises ValueError instead of returning a string.
C9_NonPositiveRejected ==
    (pc = "done" /\ call.op = "synth" /\ call.text # <<>> /\ call.target <= 0)
      => outcome.err = "ValueError" /\ ~outcome.returned

\* C10: an analysis has a score from 0 to 10, an entropy of at least 0, a
\* length of at least 1 and as alphabet size the sum of 10, 26, 26 and 32
\* over the classes found.
C10_AnalysisRanges ==
    AnalysisReturned =>
      LET a == outcome.analysis
      IN  /\ 0 <= a.score /\ a.score <= 100
          /\ a.entropy >= 0
          /\ a.length >= 1
          /\ a.alphabet_size = (IF a.has_digits THEN 10 ELSE 0)
                               + (IF a.has_lower THEN 26 ELSE 0)
                               + (IF a.has_upper THEN 26 ELSE 0)
                               + (IF a.has_special THEN 32 ELSE 0)

\* C10 happens: a password of more than 100 bits of entropy is analysed and
\* gets the score 10.
C10_Witness ==
    /\ AnalysisReturned
    /\ outcome.analysis.entropy > 1000
    /\ outcome.analysis.score = 100
    /\ outcome.analysis.alphabet_size = 94

\* the candidates of the pool that score above the original
Improving ==
    {i \in 1..Len(outcome.candidates) :
       outcome.candidates[i].score > ScoreOf(call.text)}

\* C11: the returned list is in ascending order of score: of two adjacent
\* variants the earlier one's score is at most the later one's.
C11_SortedAscending ==
    VariantsReturned =>
      \A i \in 1..(Len(outcome.variants) - 1) :
        outcome.variants[i].score <= outcome.variants[i + 1].score

\* C11 happens: 5 variants sampled out of more than 5 surviving categories
\* are returned, the first scoring strictly less than the last.
C11_Witness ==
    /\ VariantsReturned
    /\ Len(outcome.variants) = 5
    /\ Cardinality({outcome.candidates[i].improvement_type :
                      i \in Improving}) > 5
    /\ outcome.variants[1].score < outcome.variants[5].score

\* C12: no two returned variants have the same improvement_type.
C12_OnePerCategory ==
    VariantsReturned =>
      \A i, j \in 1..Len(outcome.variants) :
        outcome.variants[i].improvement_type
          = outcome.variants[j].improvement_type => i = j

\* C12 happens: both candidates of the category "moderate" and both of the
\* category "strong" score above the original, and the returned list holds
\* one variant of each of the two categories.
C12_Witness ==
    /\ VariantsReturned
    /\ \A t \in {"moderate", "strong"} :
         /\ Cardinality({i \in Improving :
                           outcome.candidates[i].improvement_type = t}) = 2
         /\ \E v \in ReturnedVariants : v.improvement_type = t

\* alphanumeric and not an ASCII letter or digit
NonAsciiAlnum(c) ==
    IsAlnum(c) /\ c \notin Range(DIGITS) \cup Range(LOWER) \cup Range(UPPER)

OnlyOf(password, Test(_)) ==
    password # <<>> /\ \A i \in 1..Len(password) : Test(password[i])

IsSpace(c) == c = SPACE

FlagsOf(a) == <<a.has_digits, a.has_lower, a.has_upper, a.has_special>>

\* C13: a password made only of alphanumeric characters that are not ASCII
\* letters or digits is classified with none of the four flags set.
C13_NonAsciiNoFlags ==
    (AnalysisReturned /\ OnlyOf(call.text, NonAsciiAlnum))
      => FlagsOf(outcome.analysis) = <<FALSE, FALSE, FALSE, FALSE>>

\* C14 as stated: a password of whitespace only gets no flag, the alphabet
\* size 0, the entropy 0 and the score 0.
C14_WhitespaceNoFlags ==
    (AnalysisReturned /\ OnlyOf(call.text, IsSpace))
      => /\ FlagsOf(outcome.analysis) = <<FALSE, FALSE, FALSE, FALSE>>
         /\ outcome.analysis.alphabet_size = 0
         /\ outcome.analysis.entropy = 0
         /\ outcome.analysis.score = 0

\* C14 amended: a password of whitespace only gets the special flag and no
\* other, the alphabet size 32, an entropy of 5 bits per character and a
\* score above 0.
C14_WhitespaceIsSpecial ==
    (AnalysisReturned /\ OnlyOf(call.text, IsSpace))
      => /\ FlagsOf(outcome.analysis) = <<FALSE, FALSE, FALSE, TRUE>>
         /\ outcome.analysis.alphabet_size = 32
         /\ outcome.analysis.entropy = 50 * Len(call.text)
         /\ outcome.analysis.score > 0

\* C14 happens: the analysis of a password of two spaces has returned.
C14_Witness ==
    /\ AnalysisReturned
    /\ call.text = <<SPACE, SPACE>>
    /\ outcome.analysis.has_special

RecommendReturned == pc = "done" /\ call.op = "recommend" /\ outcome.returned

\* C15: get_recommendation gives the minimal text for a score below 4, the
\* good text from 4 to below 6, the excellent text from 6 to below 8 and
\* the superb text from 8 on (scores in tenths).
C15_RecommendationTiers ==
    RecommendReturned =>
      /\ outcome.recommendation \in {"MINIMAL", "GOOD", "EXCELLENT", "SUPERB"}
      /\ outcome.recommendation = "MINIMAL" <=> call.target < 40
      /\ outcome.recommendation = "GOOD"
           <=> (40 <= call.target /\ call.target < 60)
      /\ outcome.recommendation = "EXCELLENT"
           <=> (60 <= call.target /\ call.target < 80)
      /\ outcome.recommendation = "SUPERB" <=> call.target >= 80

\* C15 happens: the recommendation for the boundary score 6.0 is the
\* excellent text.
C15_Witness ==
    /\ RecommendReturned
    /\ call.target = 60
    /\ outcome.recommendation = "EXCELLENT"

\* C16: every call of generate_secure_password the shell makes, the first
\* and the one for the improved version, passes a target length from 8 to
\* 50.
C16_ShellTargetsInRange ==
    (call.op = "synth" /\ shell.stage \in {"first", "second"})
      => 8 <= call.target /\ call.target <= 50

\* C17 as stated: the candidates built before the filter are at most 9.
C17_AtMostNineCandidates == VariantsReturned => Len(outcome.candidates) <= 9

\* C17 amended: the candidates built before the filter are at most 10.
C17_AtMostTenCandidates == VariantsReturned => Len(outcome.candidates) <= 10

\* C17 happens: all ten candidates are built, the five appended ones and one
\* of each of the five other heuristics.
C17_Witness ==
    /\ VariantsReturned
    /\ Len(outcome.candidates) = 10
    /\ \E i \in 1..10 : outcome.candidates[i].improvement_type = "creative"
    /\ \E i \in 1..10 : outcome.candidates[i].improvement_type = "smart"

\* the entropy computed for a password, in millionths of a bit
EntropyOf(password) ==
    compute_entropy_bits(
        Len(password),
        compute_alphabet_size(check_password_characters(password)))

\* the analysis of a password returns, from an entropy that is not negative
AnalysisSound(password) ==
    /\ EntropyOf(password) >= 0
    /\ analyze_password_complexity(password).err = "none"
    /\ analyze_password_complexity(password).analysis.entropy >= 0

\* C18: the analysis of a non-empty password, and the analysis of every
\* candidate generate_improvement_variants builds, computes an entropy of
\* at least 0 and does not raise.
C18_NoNegativeEntropy ==
    (pc = "done" /\ call.op \in {"analyze", "variants"} /\ call.text # <<>>)
      => /\ outcome.err = "none"
         /\ outcome.returned
         /\ outcome.analysis.entropy >= 0
         /\ AnalysisSound(call.text)
         /\ \A i \in 1..Len(outcome.candidates) :
              AnalysisSound(outcome.candidates[i].password)

\* C18 happens: variants of a password without any class, whose entropy is
\* the 0 of the guard, have been generated.
C18_Witness ==
    /\ VariantsReturned
    /\ outcome.analysis.alphabet_size = 0
    /\ outcome.analysis.entropy = 0
    /\ outcome.candidates # <<>>

\* C19: for an original password that scores 10.0,
\* generate_improvement_variants returns an empty list.
C19_TopScoreNoVariants ==
    (VariantsReturned /\ outcome.analysis.score = 100)
      => outcome.variants = <<>>

\* C19 happens: candidates of an original of score 10.0 were built, one of
\* them longer than the original and of score 10.0 too, and none returned.
C19_Witness ==
    /\ VariantsReturned
    /\ outcome.analysis.score = 100
    /\ outcome.variants = <<>>
    /\ \E i \in 1..Len(outcome.candidates) :
         /\ Len(outcome.candidates[i].password) > Len(call.text)
         /\ outcome.candidates[i].score = 100

\* password is text followed by at least one more character
Appended(text, password) ==
    /\ Len(password) > Len(text)
    /\ SubSeq(password, 1, Len(text)) = text

\* C20: appending never lowers the score: the score of an analysed password
\* is at least the score of each of its non-empty proper prefixes, and every
\* candidate that is the original followed by more characters has a score
\* of at least the original's.
C20_AppendNeverLowers ==
    /\ AnalysisReturned =>
         \A n \in 1..(Len(call.text) - 1) :
           ScoreOf(SubSeq(call.text, 1, n)) <= outcome.analysis.score
    /\ VariantsReturned =>
         \A i \in 1..Len(outcome.candidates) :
           Appended(call.text, outcome.candidates[i].password)
             => /\ outcome.candidates[i].score >= outcome.analysis.score
                /\ ScoreOf(outcome.candidates[i].password)
                     >= ScoreOf(call.text)

\* C20 happens: of the candidates appended to an original of 9 characters
\* or more, one scores more than the original and the doubled one is among
\* them.
C20_Witness ==
    /\ VariantsReturned
    /\ Len(call.text) >= 9
    /\ \E i, j \in 1..Len(outcome.candidates) :
         /\ Appended(call.text, outcome.candidates[i].password)
         /\ outcome.candidates[i].score > outcome.analysis.score
         /\ Appended(call.text, outcome.candidates[j].password)
         /\ Len(outcome.candidates[j].password) >= 2 * Len(call.text)

====
